---- MODULE Spec2Model ----
(***************************************************************************)
(* Model of the Elo backtest of src/src/anubis_elo/eval/backtest.py.       *)
(*                                                                         *)
(* Numbers.  The program computes in binary floating point.  The model     *)
(* computes in decimal fixed point: a quantity q is held as the integer    *)
(* q * Scale.  Ratings, scores, weights, expected scores and losses are    *)
(* all fixed-point; counts (n, correct, games, ...) are plain integers.    *)
(* The transcendental functions (10 ** x, log, sqrt) are computed by       *)
(* series, so they are functions of their arguments with the same sign,    *)
(* fixed points (10 ** 0 = 1, log 1 = 0) and monotonic shape as the        *)
(* library functions, at a resolution of 1 / Scale.                        *)
(*                                                                         *)
(* Text.  A string is the sequence of its character codes, so that         *)
(* strip(), lower(), string comparison and f-string formatting are         *)
(* computed as the program computes them.                                  *)
(***************************************************************************)
EXTENDS Integers, Sequences, FiniteSets, TLC

VARIABLES
    matches,        \* backtest's argument `matches` (list of MatchRow)
    cfg,            \* k, init_rating, weight_mode, weight_cap, start_id, end_id
    matches_sorted, \* local of backtest, line 199
    i,              \* position of the for-loop of line 201 in matches_sorted
    pid_to_name,    \* the name map (dict pid -> str), mutated by backtest
    ratings,        \* dict pid -> rating; DOMAIN ratings is its key set
    ratings_keys,   \* insertion order of the dict `ratings`
    stats,          \* dict pid -> [games, wins, losses]
    n,              \* matches used
    correct,        \* correct predictions
    ll_sum,         \* accumulated log-loss
    pc,             \* "loop" | "returned" | "raised" | "written"
    metrics,        \* the metrics dict of line 261 (None before return)
    rows,           \* the table write_ratings writes (None before)
    matches2,       \* second ordering of the same records (SpecPerm)
    run2,           \* state of the replay of matches2 (SpecPerm)
    counts,         \* tally of _build_canonical_name_map (SpecNames)
    call,           \* arguments of a _round_weight call (SpecWeight)
    ret             \* its result (SpecWeight)

vars == <<matches, cfg, matches_sorted, i, pid_to_name, ratings, ratings_keys,
          stats, n, correct, ll_sum, pc, metrics, rows, matches2, run2,
          counts, call, ret>>

----------------------------------------------------------------------------
(* Bounds of the model *)

MaxMatches == 2

MaxRounds == 16

----------------------------------------------------------------------------
(* Fixed-point arithmetic *)

Scale == 100 * 100

\* Optional values
None == [some |-> FALSE]

Some(v) == [some |-> TRUE, v |-> v]

Abs(x) == IF x < 0 THEN -x ELSE x

Min(a, b) == IF a <= b THEN a ELSE b

Max(a, b) == IF a >= b THEN a ELSE b

\* a loop `for x in s: acc = Op(acc, x)`; each iteration works on the value
\* the one before left ({F(a) : a \in {e}} hands F the value of e)
RECURSIVE FoldLeft(_, _, _)
FoldLeft(Op(_, _), acc, s) ==
    IF s = <<>> THEN acc
    ELSE CHOOSE r \in {FoldLeft(Op, a, Tail(s)) : a \in {Op(acc, Head(s))}} : TRUE

\* zip(a, b) as the positions both have
ZipIndex(a, b) == [x \in 1..(IF Len(a) <= Len(b) THEN Len(a) ELSE Len(b)) |-> x]

SumSeq(s) == FoldLeft(LAMBDA acc, x : acc + x, 0, s)

\* integer square root by Newton's iteration, from a start x >= isqrt(v)
RECURSIVE ISqrtFrom(_, _)
ISqrtFrom(v, x) ==
    IF (x + (v \div x)) \div 2 >= x THEN x
    ELSE ISqrtFrom(v, (x + (v \div x)) \div 2)

ISqrt(v) == IF v <= 0 THEN 0 ELSE ISqrtFrom(v, Min(v, 46340))

\* math.sqrt on fixed-point: sqrt(v / Scale) * Scale
Sqrt(v) == ISqrt(v * Scale)

\* one step of Horner's rule for exp: 1 + (y / j) * inner
ExpStep(y, j, inner) == Scale + ((y * inner) \div (j * Scale))

\* exp(y) = 1 + y (1 + y/2 (1 + y/3 ( ... ))), the series to y^9 / 9!
Exp(y) ==
    ExpStep(y, 1, ExpStep(y, 2, ExpStep(y, 3, ExpStep(y, 4, ExpStep(y, 5,
        ExpStep(y, 6, ExpStep(y, 7, ExpStep(y, 8, ExpStep(y, 9, Scale)))))))))

\* ln(10)
Ln10 == 23026

\* 10.0 ** x
Pow10(x) == Exp((x * Ln10) \div Scale)

\* one step of Horner's rule for atanh(z) / z: 1 / (2j + 1) + q * inner
AtanhStep(q, j, inner) == (Scale \div (2 * j + 1)) + ((q * inner) \div Scale)

\* log(p) = 2 atanh(z), z = (p - 1) / (p + 1),
\* atanh(z) = z (1 + q/3 + q^2/5 + ...), q = z^2, the series to q^9 / 19
Log(p) ==
    LET z == ((p - Scale) * Scale) \div (p + Scale)
        q == (z * z) \div Scale
    IN  (2 * z * AtanhStep(q, 0, AtanhStep(q, 1, AtanhStep(q, 2, AtanhStep(q, 3,
            AtanhStep(q, 4, AtanhStep(q, 5, AtanhStep(q, 6, AtanhStep(q, 7,
            AtanhStep(q, 8, Scale \div 19)))))))))) \div Scale

----------------------------------------------------------------------------
(* Text *)

\* str.strip(): drop leading and trailing whitespace
IsSpace(c) == c \in {9, 10, 11, 12, 13, 32}

RECURSIVE LStrip(_)
LStrip(s) == IF s # <<>> /\ IsSpace(Head(s)) THEN LStrip(Tail(s)) ELSE s

RECURSIVE RStrip(_)
RStrip(s) ==
    IF s # <<>> /\ IsSpace(s[Len(s)]) THEN RStrip(SubSeq(s, 1, Len(s) - 1)) ELSE s

Strip(s) == RStrip(LStrip(s))

\* str.lower() on ASCII
Lower(s) == [x \in 1..Len(s) |-> IF s[x] \in 65..90 THEN s[x] + 32 ELSE s[x]]

\* str(pid) of a non-negative integer
RECURSIVE StrInt(_)
StrInt(v) == IF v < 10 THEN <<48 + v>> ELSE StrInt(v \div 10) \o <<48 + (v % 10)>>

\* a < b on strings (code-point lexicographic order)
RECURSIVE StrLess(_, _)
StrLess(a, b) ==
    IF b = <<>> THEN FALSE
    ELSE IF a = <<>> THEN TRUE
    ELSE IF Head(a) # Head(b) THEN Head(a) < Head(b)
    ELSE StrLess(Tail(a), Tail(b))

\* "anubis"
Anubis == <<97, 110, 117, 98, 105, 115>>

----------------------------------------------------------------------------
(* Dictionaries: a dict is a function; its key set is its DOMAIN *)

EmptyDict == << >>

DictGet(d, key, default) == IF key \in DOMAIN d THEN d[key] ELSE default

DictSet(d, key, v) ==
    IF key \in DOMAIN d THEN [d EXCEPT ![key] = v] ELSE (key :> v) @@ d

Range(s) == {s[x] : x \in DOMAIN s}

----------------------------------------------------------------------------
(* Helpers of backtest.py *)

Mean(vals) == IF vals = <<>> THEN 0 ELSE SumSeq(vals) \div Len(vals)

ExpectedScore(r_a, r_b) ==
    (Scale * Scale) \div (Scale + Pow10((r_b - r_a) \div 400))

\* the result of a call: a value, or the ValueError of line 111
Returns(v) == [raised |-> FALSE, value |-> v]

Raises == [raised |-> TRUE]

\* max() written for the min() of lines 107 and 110
RoundWeightMax(r1, r2, mode, cap) ==
    IF mode = "none" THEN Returns(Scale)
    ELSE LET rd == Abs(r1 - r2)
         IN  IF mode = "linear"
             THEN Returns(Max(cap, Scale + ((rd * Scale) \div 12)))
             ELSE IF mode = "sqrt"
             THEN Returns(Max(cap, Scale + ((Sqrt(rd * Scale) * Scale)
                                              \div Sqrt(12 * Scale))))
             ELSE Raises

\* an unknown mode taken as "none" instead of raising at line 111
RoundWeightDefaulting(r1, r2, mode, cap) ==
    IF mode = "none" THEN Returns(Scale)
    ELSE LET rd == Abs(r1 - r2)
         IN  IF mode = "linear"
             THEN Returns(Min(cap, Scale + ((rd * Scale) \div 12)))
             ELSE IF mode = "sqrt"
             THEN Returns(Min(cap, Scale + ((Sqrt(rd * Scale) * Scale)
                                              \div Sqrt(12 * Scale))))
             ELSE Returns(Scale)

RoundWeight(r1, r2, mode, cap) ==
    IF mode = "none" THEN Returns(Scale)
    ELSE LET rd == Abs(r1 - r2)
         IN  IF mode = "linear"
             THEN Returns(Min(cap, Scale + ((rd * Scale) \div 12)))
             ELSE IF mode = "sqrt"
             THEN Returns(Min(cap, Scale + ((Sqrt(rd * Scale) * Scale)
                                              \div Sqrt(12 * Scale))))
             ELSE Raises

WinnerScore(r1, r2) ==
    IF r1 = r2 THEN Scale \div 2 ELSE IF r1 > r2 THEN Scale ELSE 0

\* the check of line 123 left out
ValidateTeamsIdsOnly(ids1, ids2, names1, names2) ==
    IF Len(ids1) # 5 \/ Len(ids2) # 5 THEN FALSE
    ELSE IF Cardinality(Range(ids1)) # 5 \/ Cardinality(Range(ids2)) # 5 THEN FALSE
    ELSE IF Range(ids1) \cap Range(ids2) # {} THEN FALSE
    ELSE TRUE

ValidateTeams(ids1, ids2, names1, names2) ==
    IF Len(ids1) # 5 \/ Len(ids2) # 5 THEN FALSE
    ELSE IF Len(names1) # 5 \/ Len(names2) # 5 THEN FALSE
    ELSE IF Cardinality(Range(ids1)) # 5 \/ Cardinality(Range(ids2)) # 5 THEN FALSE
    ELSE IF Range(ids1) \cap Range(ids2) # {} THEN FALSE
    ELSE TRUE

----------------------------------------------------------------------------
(* Identity canonicalizer *)

\* the nested function add() of _build_canonical_name_map
Add(cnt, pid, name) ==
    LET nm == Strip(name)
    IN  IF nm = <<>> THEN cnt
        ELSE LET c0 == IF pid \in DOMAIN cnt THEN cnt ELSE DictSet(cnt, pid, EmptyDict)
             IN  [c0 EXCEPT ![pid] = DictSet(c0[pid], nm, DictGet(c0[pid], nm, 0) + 1)]

\* for pid, nm in zip(ids, names): add(pid, nm)
AddZip(cnt, ids, names) ==
    FoldLeft(LAMBDA c, x : Add(c, ids[x], names[x]), cnt, ZipIndex(ids, names))

\* the body of the loop of lines 143-151
TallyRecord(cnt, m) ==
    IF Lower(m.map_name) # Anubis THEN cnt
    ELSE LET c1 == IF Len(m.team1_player_ids) = Len(m.team1_player_names)
                   THEN AddZip(cnt, m.team1_player_ids, m.team1_player_names)
                   ELSE cnt
         IN  IF Len(m.team2_player_ids) = Len(m.team2_player_names)
             THEN AddZip(c1, m.team2_player_ids, m.team2_player_names)
             ELSE c1

TallyAll(cnt, ms) == FoldLeft(TallyRecord, cnt, ms)

\* sorted(name_counts.items(), key=(count, name), reverse=True)[0][0]
Best(name_counts) ==
    CHOOSE b \in DOMAIN name_counts :
        \A o \in DOMAIN name_counts :
            o = b \/ name_counts[o] < name_counts[b]
                  \/ (name_counts[o] = name_counts[b] /\ StrLess(o, b))

\* the loop of lines 153-157
ChooseNames(cnt) == [pid \in DOMAIN cnt |-> Best(cnt[pid])]

BuildCanonicalNameMap(ms) == ChooseNames(TallyAll(EmptyDict, ms))

\* f"{name} ({pid})"
Disambiguated(name, pid) == name \o <<32, 40>> \o StrInt(pid) \o <<41>>

MakeUniqueNames(p2n) ==
    [pid \in DOMAIN p2n |->
        IF Cardinality({q \in DOMAIN p2n : p2n[q] = p2n[pid]}) <= 1
        THEN p2n[pid]
        ELSE Disambiguated(p2n[pid], pid)]

----------------------------------------------------------------------------
(* backtest *)

\* epsilon of line 235: the smallest positive fixed-point number
Eps == 1

\* sorted(matches, key=lambda m: m.mapstats_id): stable insertion
RECURSIVE InsertById(_, _)
InsertById(s, m) ==
    IF s = <<>> THEN <<m>>
    ELSE IF s[Len(s)].mapstats_id <= m.mapstats_id THEN Append(s, m)
    ELSE Append(InsertById(SubSeq(s, 1, Len(s) - 1), m), s[Len(s)])

\* the sort of line 199 left out
MatchesUnsorted(ms) == ms

MatchesSorted(ms) == FoldLeft(InsertById, <<>>, ms)

\* the three `continue` filters of lines 202-207
InScope(m, c) ==
    /\ ~(c.start_id.some /\ m.mapstats_id < c.start_id.v)
    /\ ~(c.end_id.some /\ m.mapstats_id > c.end_id.v)
    /\ Lower(m.map_name) = Anubis

\* a record reaches line 217
Used(m, c) ==
    /\ InScope(m, c)
    /\ ValidateTeams(m.team1_player_ids, m.team2_player_ids,
                     m.team1_player_names, m.team2_player_names)

\* lines 218 and 222 without `pid not in pid_to_name`: a later record's name
\* replaces the entry
LearnOverwriting(p2n, pid, nm) ==
    IF Strip(nm) # <<>>
    THEN DictSet(p2n, pid, Strip(nm))
    ELSE p2n

\* lines 217-219 and 221-223
Learn(p2n, pid, nm) ==
    IF pid \notin DOMAIN p2n /\ Strip(nm) # <<>>
    THEN DictSet(p2n, pid, Strip(nm))
    ELSE p2n

LearnNames(p2n, ids, names) ==
    FoldLeft(LAMBDA d, x : Learn(d, ids[x], names[x]), p2n, ZipIndex(ids, names))

\* ensure(pid), lines 193-197, on the state record st
Ensure(st, pid) ==
    [st EXCEPT
       !.ratings = IF pid \in DOMAIN st.ratings THEN @
                   ELSE DictSet(@, pid, st.init_rating),
       !.ratings_keys = IF pid \in DOMAIN st.ratings THEN @ ELSE Append(@, pid),
       !.stats = IF pid \in DOMAIN st.stats THEN @
                 ELSE DictSet(@, pid, [games |-> 0, wins |-> 0, losses |-> 0])]

EnsureAll(st, ids) == FoldLeft(Ensure, st, ids)

\* get_r(pid), line 191
GetR(st, pid) == DictGet(st.ratings, pid, st.init_rating)

\* `else` written for the `elif` of lines 250 and 258: a draw counted as a loss
UpdateMemberDrawIsLoss(st, pid, delta, s1, won, lost) ==
    [st EXCEPT
       !.ratings = DictSet(@, pid, GetR(st, pid) + delta),
       !.stats[pid].games = @ + 1,
       !.stats[pid].wins = IF s1 = won THEN @ + 1 ELSE @,
       !.stats[pid].losses = IF s1 # won THEN @ + 1 ELSE @]

\* the body of the loops of lines 245-251 and 253-259: `won` is the score at
\* which this team wins, `lost` the score at which it loses
UpdateMember(st, pid, delta, s1, won, lost) ==
    [st EXCEPT
       !.ratings = DictSet(@, pid, GetR(st, pid) + delta),
       !.stats[pid].games = @ + 1,
       !.stats[pid].wins = IF s1 = won THEN @ + 1 ELSE @,
       !.stats[pid].losses = IF s1 = lost THEN @ + 1 ELSE @]

UpdateTeam(st, ids, delta, s1, won, lost) ==
    FoldLeft(LAMBDA acc, pid : UpdateMember(acc, pid, delta, s1, won, lost), st, ids)

\* r1, r2 of lines 228-229
TeamRating(st, ids) == Mean([x \in 1..Len(ids) |-> GetR(st, ids[x])])

\* a draw predicted at exactly 0.5 counted as correct
IsCorrectDrawAtHalf(e1, s1) ==
    \/ (e1 >= Scale \div 2 /\ s1 = Scale) \/ (e1 < Scale \div 2 /\ s1 = 0)
    \/ (e1 = Scale \div 2 /\ s1 = Scale \div 2)

\* line 239
IsCorrect(e1, s1) ==
    (e1 >= Scale \div 2 /\ s1 = Scale) \/ (e1 < Scale \div 2 /\ s1 = 0)

\* line 236-237
LogLoss(e1, s1) ==
    LET p == Min(Scale - Eps, Max(Eps, e1))
    IN  -((s1 * Log(p) + (Scale - s1) * Log(Scale - p)) \div Scale)

\* line 242; k is a whole number of points
Delta1(k, w, s1, e1) == k * ((w * (s1 - e1)) \div Scale)

\* lines 217-226: learn names, then ensure() every participant
Prepare(st, m) ==
    LET p2n == LearnNames(LearnNames(st.pid_to_name, m.team1_player_ids,
                                     m.team1_player_names),
                          m.team2_player_ids, m.team2_player_names)
    IN  EnsureAll([st EXCEPT !.pid_to_name = p2n],
                  m.team1_player_ids \o m.team2_player_ids)

\* lines 228-233
Predict(st, m) ==
    [e1 |-> ExpectedScore(TeamRating(st, m.team1_player_ids),
                          TeamRating(st, m.team2_player_ids)),
     s1 |-> WinnerScore(m.team1_rounds, m.team2_rounds),
     w  |-> RoundWeight(m.team1_rounds, m.team2_rounds,
                        st.weight_mode, st.weight_cap)]

\* lines 235-240
Score(st, e1, s1) ==
    [st EXCEPT !.ll_sum = @ + LogLoss(e1, s1),
               !.n = @ + 1,
               !.correct = IF IsCorrect(e1, s1) THEN @ + 1 ELSE @]

\* a slip of sign in line 243
Delta2SameSign(delta1) == delta1

\* line 243
Delta2(delta1) == -delta1

\* team 2's delta taken from an expected score read after team 1's update
ApplyDeltasPostRead(st, m, delta1, s1) ==
    CHOOSE r \in
        {UpdateTeam(st1, m.team2_player_ids,
                    -Delta1(st.k,
                            RoundWeight(m.team1_rounds, m.team2_rounds,
                                        st.weight_mode, st.weight_cap).value,
                            s1,
                            ExpectedScore(TeamRating(st1, m.team1_player_ids),
                                          TeamRating(st1, m.team2_player_ids))),
                    s1, 0, Scale) :
            st1 \in {UpdateTeam(st, m.team1_player_ids, delta1, s1, Scale, 0)}} : TRUE

\* lines 243-259
ApplyDeltas(st, m, delta1, s1) ==
    UpdateTeam(UpdateTeam(st, m.team1_player_ids, delta1, s1, Scale, 0),
               m.team2_player_ids, Delta2(delta1), s1, 0, Scale)

\* lines 235-259, given the prediction p of lines 228-233
ScoreAndUpdate(st, m, p) ==
    IF p.w.raised THEN [st EXCEPT !.raised = TRUE]
    ELSE ApplyDeltas(Score(st, p.e1, p.s1), m,
                     Delta1(st.k, p.w.value, p.s1, p.e1), p.s1)

\* lines 209-259 for a record that passed the filters; st.raised tells
\* whether _round_weight raised
LoopBody(st, m) ==
    CHOOSE r \in {ScoreAndUpdate(sp[1], m, sp[2]) :
                    sp \in {<<st1, Predict(st1, m)>> : st1 \in {Prepare(st, m)}}} : TRUE

\* lines 261-265
Metrics(st) ==
    [matches_used |-> st.n,
     accuracy |-> IF st.n # 0 THEN (st.correct * Scale) \div st.n ELSE 0,
     log_loss |-> IF st.n # 0 THEN st.ll_sum \div st.n ELSE 0]

----------------------------------------------------------------------------
(* write_ratings *)

\* f"{r:.2f}": the rating in hundredths, rounded half to even
Fixed2(r) ==
    LET u == Scale \div 100
        q == r \div u
        rem == r % u
    IN  IF 2 * rem > u \/ (2 * rem = u /\ q % 2 = 1) THEN q + 1 ELSE q

\* a sort that does not keep equal ratings in their order
RECURSIVE InsertRowUnstable(_, _)
InsertRowUnstable(s, row) ==
    IF s = <<>> THEN <<row>>
    ELSE IF s[Len(s)].r > row.r THEN Append(s, row)
    ELSE Append(InsertRowUnstable(SubSeq(s, 1, Len(s) - 1), row), s[Len(s)])

\* rows.sort(key=lambda x: x[1], reverse=True): stable, descending
RECURSIVE InsertRow(_, _)
InsertRow(s, row) ==
    IF s = <<>> THEN <<row>>
    ELSE IF s[Len(s)].r >= row.r THEN Append(s, row)
    ELSE Append(InsertRow(SubSeq(s, 1, Len(s) - 1), row), s[Len(s)])

SortRows(unsorted) == FoldLeft(InsertRow, <<>>, unsorted)

\* lines 271-276; pid is kept in the row to tell the rows apart
RatingRows(rt, keys, sts, p2n) ==
    SortRows(
        [x \in 1..Len(keys) |->
            LET pid == keys[x]
                st == DictGet(sts, pid, [games |-> 0, wins |-> 0, losses |-> 0])
            IN  [pid |-> pid,
                 name |-> DictGet(p2n, pid, StrInt(pid)),
                 r |-> rt[pid],
                 elo |-> Fixed2(rt[pid]),
                 games |-> st.games, wins |-> st.wins, losses |-> st.losses]])

----------------------------------------------------------------------------
(* Inputs *)

\* "p<pid>"
PlayerName(pid) == <<112>> \o StrInt(pid)

NamesOf(ids) == [x \in 1..Len(ids) |-> PlayerName(ids[x])]

Row(id, map, rounds, ids1, ids2, names1, names2) ==
    [mapstats_id |-> id, map_name |-> map,
     team1_rounds |-> rounds[1], team2_rounds |-> rounds[2],
     team1_player_ids |-> ids1, team2_player_ids |-> ids2,
     team1_player_names |-> names1, team2_player_names |-> names2]

TeamA == <<1, 2, 3, 4, 5>>

TeamB == <<6, 7, 8, 9, 10>>

TeamC == <<1, 2, 3, 6, 11>>

TeamD == <<4, 7, 8, 9, 12>>

\* "Anubis", "mirage"
AnubisCap == <<65, 110, 117, 98, 105, 115>>

Mirage == <<109, 105, 114, 97, 103, 101>>

\* records that pass validation
ValidRows ==
    {Row(id, Anubis, sc, TeamA, TeamB, NamesOf(TeamA), NamesOf(TeamB)) :
        id \in {1, 3}, sc \in {<<16, 4>>, <<12, 12>>}}
    \cup
    {Row(3, Anubis, <<11, 13>>, TeamA, TeamB, NamesOf(TeamA), NamesOf(TeamB)),
     Row(2, Anubis, <<16, 4>>, TeamC, TeamD, NamesOf(TeamC), NamesOf(TeamD)),
     Row(2, Anubis, <<12, 12>>, TeamC, TeamD, NamesOf(TeamC), NamesOf(TeamD))}
    \cup
    {Row(2, AnubisCap, <<4, 16>>, TeamB, TeamA,
         <<<<>>, <<32, 122, 32>>, <<122>>, <<122>>, <<122>>>>, NamesOf(TeamA))}

\* records that a filter or _validate_teams rejects
RejectedRows ==
    {Row(2, Mirage, <<16, 4>>, TeamA, TeamB, NamesOf(TeamA), NamesOf(TeamB)),
     Row(2, Anubis, <<16, 4>>, <<1, 2, 3, 4>>, TeamB, NamesOf(<<1, 2, 3, 4>>), NamesOf(TeamB)),
     Row(2, Anubis, <<16, 4>>, TeamA, <<6, 7, 8, 9, 9>>, NamesOf(TeamA), NamesOf(TeamB)),
     Row(2, Anubis, <<16, 4>>, TeamA, <<5, 6, 7, 8, 9>>, NamesOf(TeamA), NamesOf(TeamB)),
     Row(2, Anubis, <<16, 4>>, TeamA, TeamB, NamesOf(TeamA), NamesOf(<<6, 7, 8, 9>>))}

Rows == ValidRows \cup RejectedRows

RECURSIVE ListsUpTo(_, _)
ListsUpTo(S, len) ==
    IF len = 0 THEN {<<>>}
    ELSE LET shorter == ListsUpTo(S, len - 1)
         IN  shorter \cup {Append(l, x) : l \in {y \in shorter : Len(y) = len - 1}, x \in S}

Config(k, init, mode, cap, lo, hi) ==
    [k |-> k, init_rating |-> init, weight_mode |-> mode, weight_cap |-> cap,
     start_id |-> lo, end_id |-> hi]

\* the defaults of main(), lines 289-294
DefaultConfig == Config(24, 1500 * Scale, "linear", 2 * Scale, None, None)

\* the defaults, every weight mode, and id ranges
Configs ==
    {Config(24, 1500 * Scale, mode, 2 * Scale, None, None) :
        mode \in {"none", "linear", "sqrt", "cubic"}}
    \cup
    {Config(24, 1500 * Scale, "linear", (3 * Scale) \div 2, r[1], r[2]) :
        r \in {<<Some(2), Some(2)>>, <<Some(3), None>>, <<None, Some(1)>>}}

----------------------------------------------------------------------------
(* The replay as a state machine: one step per iteration of the loop of    *)
(* line 201, then the return of backtest and write_ratings as main calls   *)
(* them.                                                                    *)

\* the locals and arguments of backtest as one record
State ==
    [pid_to_name |-> pid_to_name, ratings |-> ratings, ratings_keys |-> ratings_keys,
     stats |-> stats, n |-> n, correct |-> correct, ll_sum |-> ll_sum,
     raised |-> FALSE,
     k |-> cfg.k, init_rating |-> cfg.init_rating,
     weight_mode |-> cfg.weight_mode, weight_cap |-> cfg.weight_cap]

\* lines 184-188 and 199
InitRun(ms, c, p2n) ==
    /\ matches = ms
    /\ cfg = c
    /\ matches_sorted = MatchesSorted(ms)
    /\ i = 1
    /\ pid_to_name = p2n
    /\ ratings = EmptyDict
    /\ ratings_keys = <<>>
    /\ stats = EmptyDict
    /\ n = 0
    /\ correct = 0
    /\ ll_sum = 0
    /\ pc = "loop"
    /\ metrics = None
    /\ rows = <<>>

Idle2 == matches2 = <<>> /\ run2 = None

IdleNames == counts = EmptyDict

IdleWeight == call = None /\ ret = None

\* main(), lines 298-301, or a caller that passes an empty name map
Init ==
    /\ \E ms \in ListsUpTo(Rows, MaxMatches) :
          \/ \E c \in Configs :
                InitRun(ms, c, MakeUniqueNames(BuildCanonicalNameMap(ms)))
          \/ InitRun(ms, DefaultConfig, EmptyDict)
    /\ Idle2
    /\ IdleNames
    /\ IdleWeight

\* a `continue` of lines 202-215
SkipRecord ==
    /\ pc = "loop"
    /\ i <= Len(matches_sorted)
    /\ ~Used(matches_sorted[i], cfg)
    /\ i' = i + 1
    /\ UNCHANGED <<matches, cfg, matches_sorted, pid_to_name, ratings, ratings_keys,
                   stats, n, correct, ll_sum, pc, metrics, rows>>

\* lines 217-259
ProcessRecord ==
    /\ pc = "loop"
    /\ i <= Len(matches_sorted)
    /\ Used(matches_sorted[i], cfg)
    /\ \E st \in {LoopBody(State, matches_sorted[i])} :
           /\ pid_to_name' = st.pid_to_name
           /\ ratings' = st.ratings
           /\ ratings_keys' = st.ratings_keys
           /\ stats' = st.stats
           /\ n' = st.n
           /\ correct' = st.correct
           /\ ll_sum' = st.ll_sum
           /\ pc' = IF st.raised THEN "raised" ELSE "loop"
           /\ i' = IF st.raised THEN i ELSE i + 1
    /\ UNCHANGED <<matches, cfg, matches_sorted, metrics, rows>>

\* lines 261-266
Return ==
    /\ pc = "loop"
    /\ i > Len(matches_sorted)
    /\ metrics' = Metrics(State)
    /\ pc' = "returned"
    /\ UNCHANGED <<matches, cfg, matches_sorted, i, pid_to_name, ratings,
                   ratings_keys, stats, n, correct, ll_sum, rows>>

\* main(), line 315
WriteRatings ==
    /\ pc = "returned"
    /\ rows' = RatingRows(ratings, ratings_keys, stats, pid_to_name)
    /\ pc' = "written"
    /\ UNCHANGED <<matches, cfg, matches_sorted, i, pid_to_name, ratings,
                   ratings_keys, stats, n, correct, ll_sum, metrics>>

Next ==
    \/ SkipRecord /\ UNCHANGED <<matches2, run2, counts, call, ret>>
    \/ ProcessRecord /\ UNCHANGED <<matches2, run2, counts, call, ret>>
    \/ Return /\ UNCHANGED <<matches2, run2, counts, call, ret>>
    \/ WriteRatings /\ UNCHANGED <<matches2, run2, counts, call, ret>>

Spec == Init /\ [][Next]_vars

----------------------------------------------------------------------------
(* A second replay of a reordering of the same records, run as one call of *)
(* backtest, to compare with the first.                                    *)

\* the loop of lines 201-259 over the sorted records; nothing runs after
\* _round_weight has raised
Replay(st, sorted, c) ==
    FoldLeft(LAMBDA acc, m : IF acc.raised \/ ~Used(m, c) THEN acc ELSE LoopBody(acc, m),
             st, sorted)

\* backtest(matches, pid_to_name, ...), lines 174-266: what it returns (or
\* that it raised) and the name map it leaves
Backtest(ms, c, p2n) ==
    LET st0 == [pid_to_name |-> p2n, ratings |-> EmptyDict, ratings_keys |-> <<>>,
                stats |-> EmptyDict, n |-> 0, correct |-> 0, ll_sum |-> 0,
                raised |-> FALSE,
                k |-> c.k, init_rating |-> c.init_rating,
                weight_mode |-> c.weight_mode, weight_cap |-> c.weight_cap]
    IN  LET st == CHOOSE x \in {Replay(st0, MatchesSorted(ms), c)} : TRUE
        IN  [some |-> TRUE, raised |-> st.raised,
             ratings |-> st.ratings, ratings_keys |-> st.ratings_keys,
             stats |-> st.stats,
             metrics |-> IF st.raised THEN None ELSE Metrics(st),
             pid_to_name |-> st.pid_to_name]

Orderings(ms) ==
    {[x \in 1..Len(ms) |-> ms[f[x]]] :
        f \in {g \in [1..Len(ms) -> 1..Len(ms)] : Range(g) = 1..Len(ms)}}

\* two records of id 1, one of id 2, one of id 3, and one of another map
PermRows ==
    {r \in Rows : r.map_name = Anubis /\ r.team1_player_ids = TeamA
                     /\ r.team2_player_ids = TeamB /\ Len(r.team2_player_names) = 5
                     /\ (r.mapstats_id = 1 \/ r.team1_rounds = 11)}
    \cup {r \in Rows : r.team1_player_ids = TeamC /\ r.team1_rounds = 16}
    \cup {r \in Rows : r.map_name = Mirage}

InitPerm ==
    /\ \E ms \in ListsUpTo(PermRows, MaxMatches) :
          /\ \E c \in {DefaultConfig,
                       Config(24, 1500 * Scale, "sqrt", 2 * Scale, Some(2), None)} :
                InitRun(ms, c, MakeUniqueNames(BuildCanonicalNameMap(ms)))
          /\ matches2 \in Orderings(ms)
    /\ run2 = None
    /\ IdleNames
    /\ IdleWeight

BacktestOther ==
    /\ ~run2.some
    /\ run2' = Backtest(matches2, cfg, MakeUniqueNames(BuildCanonicalNameMap(matches2)))
    /\ UNCHANGED <<matches, cfg, matches_sorted, i, pid_to_name, ratings,
                   ratings_keys, stats, n, correct, ll_sum, pc, metrics, rows,
                   matches2, counts, call, ret>>

NextPerm ==
    \/ SkipRecord /\ UNCHANGED <<matches2, run2, counts, call, ret>>
    \/ ProcessRecord /\ UNCHANGED <<matches2, run2, counts, call, ret>>
    \/ Return /\ UNCHANGED <<matches2, run2, counts, call, ret>>
    \/ BacktestOther

SpecPerm == InitPerm /\ [][NextPerm]_vars

----------------------------------------------------------------------------
(* The identity canonicalizer as a state machine: one step per record of   *)
(* the tally loop of line 143, then the vote of lines 153-157, then        *)
(* _make_unique_names, as main calls them (lines 300-301).                 *)

\* "b", " b ", "c", "b (1)", ""
NameB == <<98>>

NameBPadded == <<32, 98, 32>>

NameC == <<99>>

NameB1 == <<98, 32, 40, 49, 41>>

NameEmpty == <<>>

\* records of ids 1, 2 against id 3 under observed names, one whose names
\* do not align with its ids, and one of another map
NameRows ==
    {Row(1, Anubis, <<16, 4>>, <<1, 2>>, <<3>>, <<a, b>>, <<c>>) :
        a \in {NameB, NameBPadded}, b \in {NameB, NameC},
        c \in {NameB1, NameC, NameEmpty}}
    \cup
    {Row(1, Anubis, <<16, 4>>, <<1, 2>>, <<3>>, <<NameC>>, <<NameB>>),
     Row(1, Mirage, <<16, 4>>, <<1, 2>>, <<3>>, <<NameC, NameC>>, <<NameC>>)}

InitNames ==
    /\ matches \in ListsUpTo(NameRows, MaxMatches)
    /\ counts = EmptyDict
    /\ i = 1
    /\ pid_to_name = EmptyDict
    /\ pc = "tally"
    /\ cfg = DefaultConfig
    /\ matches_sorted = <<>>
    /\ ratings = EmptyDict
    /\ ratings_keys = <<>>
    /\ stats = EmptyDict
    /\ n = 0
    /\ correct = 0
    /\ ll_sum = 0
    /\ metrics = None
    /\ rows = <<>>
    /\ Idle2
    /\ IdleWeight

\* one iteration of the loop of lines 143-151
Tally ==
    /\ pc = "tally"
    /\ i <= Len(matches)
    /\ counts' = TallyRecord(counts, matches[i])
    /\ i' = i + 1
    /\ UNCHANGED <<pid_to_name, pc>>

\* lines 153-157
Vote ==
    /\ pc = "tally"
    /\ i > Len(matches)
    /\ pid_to_name' = ChooseNames(counts)
    /\ pc' = "voted"
    /\ UNCHANGED <<counts, i>>

\* main(), line 301
MakeUnique ==
    /\ pc = "voted"
    /\ pid_to_name' = MakeUniqueNames(pid_to_name)
    /\ pc' = "unique"
    /\ UNCHANGED <<counts, i>>

NamesFrame ==
    UNCHANGED <<matches, cfg, matches_sorted, ratings, ratings_keys, stats, n,
                correct, ll_sum, metrics, rows, matches2, run2, call, ret>>

NextNames ==
    \/ Tally /\ NamesFrame
    \/ Vote /\ NamesFrame
    \/ MakeUnique /\ NamesFrame

SpecNames == InitNames /\ [][NextNames]_vars

----------------------------------------------------------------------------
(* _round_weight as a function of its arguments: any two round counts, a   *)
(* mode that main() accepts (line 291) and a cap, which main() takes as    *)
(* any float (line 292).                                                   *)

\* 0.5, 1.0, 1.5, 2.0 (the default), 3.0
Caps == {Scale \div 2, Scale, (3 * Scale) \div 2, 2 * Scale, 3 * Scale}

InitWeight ==
    /\ call \in [r1 : 0..MaxRounds, r2 : 0..MaxRounds,
                 mode : {"none", "linear", "sqrt"}, cap : Caps]
    /\ ret = None
    /\ InitRun(<<>>, DefaultConfig, EmptyDict)
    /\ Idle2
    /\ IdleNames

CallRoundWeight ==
    /\ ret = None
    /\ ret' = RoundWeight(call.r1, call.r2, call.mode, call.cap)
    /\ UNCHANGED <<matches, cfg, matches_sorted, i, pid_to_name, ratings,
                   ratings_keys, stats, n, correct, ll_sum, pc, metrics, rows,
                   matches2, run2, counts, call>>

NextWeight == CallRoundWeight

SpecWeight == InitWeight /\ [][NextWeight]_vars

----------------------------------------------------------------------------
(* Vocabulary of the properties *)

\* the record the loop is at, and whether the step just taken processed it
Current == matches_sorted[i]

Processed == pc = "loop" /\ n' = n + 1

\* a rating as the loop reads it before the update
OldRating(pid) == IF pid \in DOMAIN ratings THEN ratings[pid] ELSE cfg.init_rating

RECURSIVE SumOver(_, _)
SumOver(f, S) ==
    IF S = {} THEN 0
    ELSE LET x == CHOOSE y \in S : TRUE IN f[x] + SumOver(f, S \ {x})

SumRatings(rt) == SumOver(rt, DOMAIN rt)

----------------------------------------------------------------------------
(* C1  Zero-sum per match: a processed match moves every member of team 1  *)
(* by one delta d and every member of team 2 by -d, and after every step   *)
(* the ratings add up to (number of rated competitors) * init_rating.      *)

ZeroSumStep ==
    /\ Processed =>
          \E d \in {ratings'[Current.team1_player_ids[1]]
                      - OldRating(Current.team1_player_ids[1])} :
              /\ \A pid \in Range(Current.team1_player_ids) :
                    ratings'[pid] = OldRating(pid) + d
              /\ \A pid \in Range(Current.team2_player_ids) :
                    ratings'[pid] = OldRating(pid) - d
    /\ SumRatings(ratings') = Cardinality(DOMAIN ratings') * cfg.init_rating

----------------------------------------------------------------------------
(* C2  Input-order independence.  The records are processed in ascending   *)
(* match_id order whatever their arrival order.  As amended: two orderings *)
(* of the same records with pairwise distinct match_ids give identical     *)
(* ratings, stats and metrics.                                             *)

Occurrences(s, x) == Cardinality({j \in DOMAIN s : s[j] = x})

SameRecords(s, t) ==
    /\ Len(s) = Len(t)
    /\ \A x \in Range(s) \cup Range(t) : Occurrences(s, x) = Occurrences(t, x)

Ascending(s) ==
    \A a, b \in DOMAIN s : a < b => s[a].mapstats_id <= s[b].mapstats_id

DistinctIds(s) ==
    \A a, b \in DOMAIN s : a # b => s[a].mapstats_id # s[b].mapstats_id

BothReturned == pc = "returned" /\ run2.some

SameResult ==
    /\ ~run2.raised
    /\ ratings = run2.ratings
    /\ stats = run2.stats
    /\ metrics = run2.metrics

C2_OrderIndependentDistinctIds ==
    /\ SameRecords(matches_sorted, matches) /\ Ascending(matches_sorted)
    /\ (BothReturned /\ DistinctIds(matches)) => SameResult

\* the claim as stated: any two orderings agree
C2_OrderIndependent ==
    /\ SameRecords(matches_sorted, matches) /\ Ascending(matches_sorted)
    /\ BothReturned => SameResult

\* two used matches with distinct ids, arriving in descending order in the
\* first replay and in ascending order in the second
C2_Witness ==
    /\ BothReturned /\ DistinctIds(matches)
    /\ n = 2
    /\ matches2 # matches
    /\ ~Ascending(matches)
    /\ \E p \in DOMAIN ratings : ratings[p] # cfg.init_rating

----------------------------------------------------------------------------
(* C3  Record filtering: the record the loop is at changes ratings, stats  *)
(* or the metric accumulators iff it is on the target map (whatever the    *)
(* case), its id is within the inclusive range and its two teams have 5    *)
(* names and 5 distinct ids each with no id on both; any other record is   *)
(* passed over without an error and changes nothing, the name map          *)
(* included; matches_used is the number of accepted records.               *)

Distinct5(ids) == Len(ids) = 5 /\ \A a, b \in 1..5 : a # b => ids[a] # ids[b]

Accepted(m) ==
    /\ Lower(m.map_name) = Anubis
    /\ cfg.start_id.some => m.mapstats_id >= cfg.start_id.v
    /\ cfg.end_id.some => m.mapstats_id <= cfg.end_id.v
    /\ Distinct5(m.team1_player_ids) /\ Distinct5(m.team2_player_ids)
    /\ Len(m.team1_player_names) = 5 /\ Len(m.team2_player_names) = 5
    /\ \A a, b \in 1..5 : m.team1_player_ids[a] # m.team2_player_ids[b]

AcceptedCount == Cardinality({j \in DOMAIN matches : Accepted(matches[j])})

FilterStep ==
    /\ (pc = "loop" /\ i <= Len(matches_sorted)) =>
          /\ Accepted(Current) <=>
                \/ ratings' # ratings \/ stats' # stats
                \/ n' # n \/ correct' # correct \/ ll_sum' # ll_sum
          /\ ~Accepted(Current) =>
                /\ pc' = "loop" /\ i' = i + 1
                /\ pid_to_name' = pid_to_name /\ ratings_keys' = ratings_keys
    /\ (pc = "loop" /\ pc' = "returned") => metrics'.matches_used = AcceptedCount

C3_Filtering == [][FilterStep]_vars

\* a replay that passed over a record with four ids on one side and one of
\* another map, in range, and used the third
C3_Witness ==
    /\ pc = "returned" /\ metrics.matches_used = 1 /\ Len(matches) = 2
    /\ \E j \in DOMAIN matches :
          /\ ~Accepted(matches[j])
          /\ Len(matches[j].team1_player_ids) = 4
    /\ Cardinality(DOMAIN ratings) = 10

----------------------------------------------------------------------------
(* C4  Canonical uniqueness: in the name map that _make_unique_names       *)
(* returns, no two distinct identifiers have the same display string.      *)

C4_CanonicalUnique ==
    pc = "unique" =>
        \A p, q \in DOMAIN pid_to_name :
            p # q => pid_to_name[p] # pid_to_name[q]

----------------------------------------------------------------------------
(* C5  Weight bounds.  As amended: under linear and sqrt the weight is at  *)
(* most weight_cap and at least the smaller of 1 and weight_cap, so it is  *)
(* within [1, weight_cap] whenever weight_cap >= 1; under none it is 1.    *)

Weighted == ret # None /\ call.mode \in {"linear", "sqrt"}

C5_WeightBoundsCapAtLeastOne ==
    /\ Weighted =>
          /\ ~ret.raised
          /\ ret.value <= call.cap
          /\ ret.value >= Min(Scale, call.cap)
          /\ call.cap >= Scale => (Scale <= ret.value /\ ret.value <= call.cap)
    /\ (ret # None /\ call.mode = "none") => (~ret.raised /\ ret.value = Scale)

\* the claim as stated: within [1, weight_cap] for every cap
C5_WeightBounds ==
    /\ Weighted => (~ret.raised /\ Scale <= ret.value /\ ret.value <= call.cap)
    /\ (ret # None /\ call.mode = "none") => (~ret.raised /\ ret.value = Scale)

\* a margin whose weight lies strictly between 1 and the cap, and one that
\* the cap cuts
C5_Witness ==
    /\ Weighted
    /\ call.cap = 2 * Scale
    /\ \/ (Scale < ret.value /\ ret.value < call.cap)
       \/ (call.mode = "linear" /\ Abs(call.r1 - call.r2) > 12 /\ ret.value = call.cap)

----------------------------------------------------------------------------
(* C6  Unknown weight mode.  As amended: a replay with a weight_mode       *)
(* outside {none, linear, sqrt} in which at least one record passes        *)
(* filtering and validation never returns: it raises at the first such     *)
(* record, before any delta is applied, before matches_used is             *)
(* incremented and before anything is written.  When no record passes, it  *)
(* returns empty ratings and zero metrics without an error.                *)

UnknownMode == cfg.weight_mode \notin {"none", "linear", "sqrt"}

SomeAccepted == \E j \in DOMAIN matches : Accepted(matches[j])

NothingApplied ==
    /\ n = 0 /\ correct = 0 /\ ll_sum = 0
    /\ \A p \in DOMAIN ratings : ratings[p] = cfg.init_rating
    /\ \A p \in DOMAIN stats : stats[p] = [games |-> 0, wins |-> 0, losses |-> 0]
    /\ pc = "raised" => (metrics = None /\ rows = <<>>)

RaisedAtFirstAccepted ==
    /\ pc \in {"loop", "raised"} => \A j \in 1..(i - 1) : ~Accepted(matches_sorted[j])
    /\ pc = "raised" => Accepted(Current)

C6_UnknownModeFatalWhenUsed ==
    UnknownMode =>
        /\ NothingApplied
        /\ RaisedAtFirstAccepted
        /\ SomeAccepted => pc \in {"loop", "raised"}
        /\ pc \in {"returned", "written"} =>
              (~SomeAccepted /\ ratings = EmptyDict /\ metrics.matches_used = 0)

\* the claim as stated: no replay with an unknown mode ever returns
C6_UnknownModeFatal ==
    UnknownMode =>
        /\ NothingApplied
        /\ RaisedAtFirstAccepted
        /\ pc \in {"loop", "raised"}

\* the error raised at the second record, after a rejected one, with the
\* ten participants entered at the initial rating
C6_Witness ==
    /\ UnknownMode /\ pc = "raised" /\ i = 2
    /\ Cardinality(DOMAIN ratings) = 10

----------------------------------------------------------------------------
(* C7  Rated set: after a completed replay the identifiers with a rating   *)
(* are those with a stats entry and are exactly the participants of the    *)
(* used matches; with no used match there is none and matches_used,        *)
(* accuracy and log_loss are 0; the table has one row per such identifier, *)
(* in non-increasing rating order, equal ratings in first-appearance       *)
(* order.                                                                  *)

Completed == pc \in {"returned", "written"}

Participants(m) == Range(m.team1_player_ids) \cup Range(m.team2_player_ids)

UsedPids ==
    UNION {Participants(matches[j]) : j \in {x \in DOMAIN matches : Accepted(matches[x])}}

\* the participants of the used matches in the order the replay meets them
Appearances ==
    FoldLeft(LAMBDA acc, m : IF Accepted(m)
                             THEN acc \o m.team1_player_ids \o m.team2_player_ids
                             ELSE acc,
             <<>>, matches_sorted)

FirstIn(app, pid) ==
    CHOOSE x \in DOMAIN app : app[x] = pid /\ \A y \in 1..(x - 1) : app[y] # pid

C7_RatedSet ==
    /\ Completed => (DOMAIN ratings = UsedPids /\ DOMAIN stats = UsedPids)
    /\ (Completed /\ ~SomeAccepted) =>
          /\ ratings = EmptyDict /\ stats = EmptyDict
          /\ metrics = [matches_used |-> 0, accuracy |-> 0, log_loss |-> 0]
    /\ pc = "written" =>
          /\ Len(rows) = Cardinality(UsedPids)
          /\ {rows[x].pid : x \in DOMAIN rows} = UsedPids
          /\ \A x \in DOMAIN rows :
                rows[x].r = ratings[rows[x].pid] /\ rows[x].games = stats[rows[x].pid].games
          /\ \A app \in {Appearances} :
                \A a, b \in DOMAIN rows :
                   a < b =>
                      /\ rows[a].r >= rows[b].r
                      /\ rows[a].r = rows[b].r =>
                            FirstIn(app, rows[a].pid) < FirstIn(app, rows[b].pid)

\* a table of twelve rows with ties and with different ratings
C7_Witness ==
    /\ pc = "written" /\ Len(rows) = 12
    /\ \E a, b \in DOMAIN rows : a < b /\ rows[a].r = rows[b].r
    /\ \E a, b \in DOMAIN rows : rows[a].r > rows[b].r

----------------------------------------------------------------------------
(* C8  Pre-update read: both team ratings and E_A of a processed match are *)
(* computed from the ratings as the earlier matches left them, and all ten *)
(* participants move by the delta of that one E_A; ten competitors at      *)
(* 1500, k = 24, linear weighting, cap 2.0 and a 16-4 win of team 1 end at *)
(* 1524 for team 1 and 1476 for team 2.                                    *)

OldTeamRating(ids) == Mean([x \in 1..Len(ids) |-> OldRating(ids[x])])

OldExpected ==
    ExpectedScore(OldTeamRating(Current.team1_player_ids),
                  OldTeamRating(Current.team2_player_ids))

OldDelta ==
    Delta1(cfg.k,
           RoundWeight(Current.team1_rounds, Current.team2_rounds,
                       cfg.weight_mode, cfg.weight_cap).value,
           WinnerScore(Current.team1_rounds, Current.team2_rounds),
           OldExpected)

Scenario ==
    /\ \A pid \in Participants(Current) : OldRating(pid) = 1500 * Scale
    /\ cfg.k = 24 /\ cfg.weight_mode = "linear" /\ cfg.weight_cap = 2 * Scale
    /\ Current.team1_rounds = 16 /\ Current.team2_rounds = 4

PreUpdateStep ==
    Processed =>
        /\ \A pid \in Range(Current.team1_player_ids) :
              ratings'[pid] = OldRating(pid) + OldDelta
        /\ \A pid \in Range(Current.team2_player_ids) :
              ratings'[pid] = OldRating(pid) - OldDelta
        /\ Scenario =>
              /\ \A pid \in Range(Current.team1_player_ids) : ratings'[pid] = 1524 * Scale
              /\ \A pid \in Range(Current.team2_player_ids) : ratings'[pid] = 1476 * Scale

C8_PreUpdateRead == [][PreUpdateStep]_vars

\* the scenario as the first match, then a match of mixed teams read from
\* the ratings it left
C8_Witness ==
    /\ n = 2 /\ i = 3
    /\ matches_sorted[1].team1_rounds = 16 /\ matches_sorted[1].team1_player_ids = TeamA
    /\ matches_sorted[2].team1_player_ids = TeamC
    /\ cfg.weight_mode = "linear" /\ cfg.weight_cap = 2 * Scale
    /\ ratings[5] = 1524 * Scale /\ ratings[10] = 1476 * Scale
    /\ ratings[1] # 1524 * Scale

----------------------------------------------------------------------------
(* C9  Accuracy rule: a processed match adds 1 to correct iff (E_A >= 0.5  *)
(* and team 1 won) or (E_A < 0.5 and team 2 won); a draw never does, even  *)
(* at E_A = 0.5; so correct <= non-drawn used matches <= matches_used.     *)

\* used matches with a winner among the first `upto` of the sorted records
NonDrawnUsed(upto) ==
    Cardinality({j \in 1..upto :
                    /\ Accepted(matches_sorted[j])
                    /\ matches_sorted[j].team1_rounds # matches_sorted[j].team2_rounds})

AccuracyStep ==
    /\ Processed =>
          /\ correct' = correct + 1 <=>
                \/ (OldExpected >= Scale \div 2
                      /\ Current.team1_rounds > Current.team2_rounds)
                \/ (OldExpected < Scale \div 2
                      /\ Current.team1_rounds < Current.team2_rounds)
          /\ correct' \in {correct, correct + 1}
          /\ Current.team1_rounds = Current.team2_rounds => correct' = correct
    /\ correct' <= NonDrawnUsed(i' - 1) /\ NonDrawnUsed(i' - 1) <= n'

C9_AccuracyRule == [][AccuracyStep]_vars

\* a draw at E_A = 0.5 not counted, then a win counted
C9_Witness ==
    /\ n = 2 /\ i = 3 /\ correct = 1
    /\ matches_sorted[1].team1_rounds = matches_sorted[1].team2_rounds
    /\ Accepted(matches_sorted[1])

----------------------------------------------------------------------------
(* C10  Stats accounting: a processed match adds 1 to games of its ten     *)
(* participants, 1 to wins of the winners and 1 to losses of the losers,   *)
(* and on a draw leaves wins and losses alone; so games = wins + losses +  *)
(* drawn used matches played, games add up to 10 * matches_used and wins   *)
(* add up to losses.                                                       *)

OldStats(pid) ==
    IF pid \in DOMAIN stats THEN stats[pid] ELSE [games |-> 0, wins |-> 0, losses |-> 0]

\* drawn used matches of pid among the first `upto` of the sorted records
DrawsPlayed(pid, upto) ==
    Cardinality({j \in 1..upto :
                    /\ Accepted(matches_sorted[j])
                    /\ matches_sorted[j].team1_rounds = matches_sorted[j].team2_rounds
                    /\ pid \in Participants(matches_sorted[j])})

Field(f, name) == [pid \in DOMAIN f |-> f[pid][name]]

StatsOf(winners, losers, drawn) ==
    /\ \A pid \in winners :
          stats'[pid] = [games |-> OldStats(pid).games + 1,
                         wins |-> OldStats(pid).wins + (IF drawn THEN 0 ELSE 1),
                         losses |-> OldStats(pid).losses]
    /\ \A pid \in losers :
          stats'[pid] = [games |-> OldStats(pid).games + 1,
                         wins |-> OldStats(pid).wins,
                         losses |-> OldStats(pid).losses + (IF drawn THEN 0 ELSE 1)]

StatsStep ==
    /\ Processed =>
          /\ IF Current.team1_rounds >= Current.team2_rounds
             THEN StatsOf(Range(Current.team1_player_ids), Range(Current.team2_player_ids),
                          Current.team1_rounds = Current.team2_rounds)
             ELSE StatsOf(Range(Current.team2_player_ids), Range(Current.team1_player_ids),
                          FALSE)
          /\ \A pid \in DOMAIN stats \ Participants(Current) : stats'[pid] = stats[pid]
    /\ \A pid \in DOMAIN stats' :
          stats'[pid].games = stats'[pid].wins + stats'[pid].losses + DrawsPlayed(pid, i' - 1)
    /\ SumOver(Field(stats', "games"), DOMAIN stats') = 10 * n'
    /\ SumOver(Field(stats', "wins"), DOMAIN stats')
          = SumOver(Field(stats', "losses"), DOMAIN stats')

C10_StatsAccounting == [][StatsStep]_vars

\* a competitor with a drawn and a won match
C10_Witness ==
    /\ n = 2
    /\ \E pid \in DOMAIN stats : stats[pid] = [games |-> 2, wins |-> 1, losses |-> 0]
    /\ \E pid \in DOMAIN stats : stats[pid] = [games |-> 2, wins |-> 0, losses |-> 1]

(***************************************************************************)
(* C11  Name map is unchanged by replay.  No step of the replay changes    *)
(* the display string of an identifier already present in the name map,    *)
(* and whenever the name map is the one the canonicalizer                  *)
(* (_build_canonical_name_map then _make_unique_names) builds from the     *)
(* record list being replayed, no step adds an entry: the map after the    *)
(* step equals the map before it, hence the map after the replay equals    *)
(* the map main() passed in.                                               *)
(***************************************************************************)

CanonicalNames == MakeUniqueNames(BuildCanonicalNameMap(matches))

EntriesKept ==
    \A pid \in DOMAIN pid_to_name :
        pid \in DOMAIN pid_to_name' /\ pid_to_name'[pid] = pid_to_name[pid]

NameMapStep ==
    /\ EntriesKept
    /\ (pid_to_name = CanonicalNames) => (pid_to_name' = pid_to_name)

C11_NameMapUnchanged == [][NameMapStep]_vars

\* a finished replay over a used record that names one participant with an
\* empty string and others with a shared name: the shared name is still in
\* its disambiguated form and the unnamed participant is still missing
C11_Witness ==
    /\ Completed
    /\ n >= 1
    /\ pid_to_name = CanonicalNames
    /\ \E pid \in UsedPids : pid \notin DOMAIN pid_to_name
    /\ \E pid \in DOMAIN pid_to_name : pid_to_name[pid] = Disambiguated(<<122>>, pid)

====
